---------------------------- MODULE Spec2Model ----------------------------
(***************************************************************************)
(* Survey-reward pipeline: the form webhook (handler A), the validation    *)
(* engine in its three coexisting variants, the submission store, the      *)
(* store-insert webhook (handler B), the reward issuer and the notifier.   *)
(*                                                                         *)
(* JavaScript strings are modelled as sequences of one-character strings   *)
(* so that toLowerCase, trim and includes are computed, not assumed.       *)
(***************************************************************************)
EXTENDS Integers, Sequences, FiniteSets, TLC

(***************************************************************************)
(* Bounds of the model                                                     *)
(***************************************************************************)
MaxFields == 2

NumProcsA == 2

NumProcsB == 1

MaxMints == 2

MaxCodes == 3

(***************************************************************************)
(* State                                                                   *)
(***************************************************************************)
VARIABLES
  variant,     \* which validation variant is deployed
  rows,        \* the submissions table, in insertion order; a row's id is its index
  hA,          \* the in-flight invocations of the form webhook, per slot
  hB,          \* the in-flight invocations of the store-insert webhook, per slot
  promoCodes,  \* the promotion codes registered with the payment provider
  outbox,      \* the messages accepted by the email provider
  out,         \* the HTTP response produced by the last step, if it produced one
  hist,        \* history, per row: how many rows its inserter's duplicate lookup
               \* saw, and how many events for it passed handler B's filters (2 = more)
  fnVariant, fnFields, fnDup, fnElapsed, fnPc, fnEmail, fnResult, fnAgain,
               \* input, position and results of the pure functions applied to
               \* bounded inputs; fnAgain is the result of a second call
  issuer       \* one call of createPromoCode, step by step, and the code strings
               \* the payment provider holds

(***************************************************************************)
(* String primitives                                                       *)
(***************************************************************************)
UpperChars == <<"A", "B", "C", "D", "E", "F", "G", "H", "I", "J", "K", "L", "M", "N", "O", "P", "Q", "R", "S", "T", "U", "V", "W", "X", "Y", "Z">>

LowerChars == <<"a", "b", "c", "d", "e", "f", "g", "h", "i", "j", "k", "l", "m", "n", "o", "p", "q", "r", "s", "t", "u", "v", "w", "x", "y", "z">>

WhiteSpace == {" ", "\t", "\n", "\r"}

DigitChars == <<"0", "1", "2", "3", "4", "5", "6", "7", "8", "9">>

LowerChar(c) ==
  IF \E i \in 1..26 : UpperChars[i] = c
  THEN LowerChars[CHOOSE i \in 1..26 : UpperChars[i] = c]
  ELSE c

\* String.prototype.toLowerCase
toLowerCase(s) == [i \in 1..Len(s) |-> LowerChar(s[i])]

UpperChar(c) ==
  IF \E i \in 1..26 : LowerChars[i] = c
  THEN UpperChars[CHOOSE i \in 1..26 : LowerChars[i] = c]
  ELSE c

\* String.prototype.toUpperCase
toUpperCase(s) == [i \in 1..Len(s) |-> UpperChar(s[i])]

\* String.prototype.substring(start, end) for 0 <= start <= end
substring(s, start, end) ==
  SubSeq(s, start + 1, IF end < Len(s) THEN end ELSE Len(s))

\* String.prototype.trim
trim(s) ==
  LET keep == {i \in 1..Len(s) : s[i] \notin WhiteSpace}
  IN IF keep = {} THEN <<>>
     ELSE LET lo == CHOOSE i \in keep : \A j \in keep : i <= j
              hi == CHOOSE i \in keep : \A j \in keep : j <= i
          IN SubSeq(s, lo, hi)

\* String.prototype.includes
includes(s, sub) ==
  \E i \in 1..(Len(s) - Len(sub) + 1) : SubSeq(s, i, i + Len(sub) - 1) = sub

RECURSIVE NumToStr(_)
\* Number.prototype.toString for the non-negative integers of the model
NumToStr(n) ==
  IF n < 10 THEN <<DigitChars[n + 1]>>
  ELSE NumToStr(n \div 10) \o <<DigitChars[(n % 10) + 1]>>

(***************************************************************************)
(* Configuration constants of the validation variants                      *)
(***************************************************************************)
STR_email == <<"e", "m", "a", "i", "l">>

ATTENTION_CHECK_FIELD_ID == <<"a", "t", "t", "e", "n", "t", "i", "o", "n", "_", "c", "h", "e", "c", "k">>

ATTENTION_TITLE_OPEN == <<"i", "f", " ", "y", "o", "u", " ", "r", "e", "a", "d", " ", "t", "h", "i", "s">>

ATTENTION_CHECK_CORRECT_ANSWER_OPEN == <<"1">>

STR_option1 == <<"o", "p", "t", "i", "o", "n", " ", "1">>

ATTENTION_CHECK_LABEL_PATTERN == <<"h", "a", "v", "e", " ", "y", "o", "u", " ", "b", "e", "e", "n", " ", "p", "a", "y", "i", "n", "g", " ", "a", "t", "t", "e", "n", "t", "i", "o", "n">>

ATTENTION_CHECK_CORRECT_ANSWER_CLOSED == <<"Y", "e", "s">>

HONEYPOT_FIELD_ID == <<"h", "o", "n", "e", "y", "p", "o", "t">>

YES_BRANCH1 == <<"d", "5", "2", "b", "3", "b", "5", "d", "-", "e", "0", "c", "d", "-", "4", "5", "4", "c", "-", "a", "f", "a", "3", "-", "1", "5", "2", "7", "6", "e", "a", "5", "b", "2", "e", "f">>

YES_BRANCH2 == <<"e", "c", "4", "0", "6", "2", "e", "f", "-", "8", "d", "3", "5", "-", "4", "0", "f", "9", "-", "8", "a", "f", "c", "-", "0", "b", "b", "6", "7", "d", "4", "1", "b", "0", "8", "6">>

YES_BRANCH3 == <<"8", "7", "5", "f", "4", "d", "5", "a", "-", "7", "2", "8", "d", "-", "4", "0", "c", "e", "-", "9", "1", "e", "f", "-", "a", "c", "7", "2", "f", "9", "0", "6", "7", "6", "2", "7">>

YES_BRANCH4 == <<"8", "d", "7", "2", "7", "2", "a", "b", "-", "3", "4", "8", "9", "-", "4", "8", "f", "e", "-", "b", "c", "7", "4", "-", "6", "3", "5", "7", "3", "d", "0", "2", "6", "1", "2", "3">>

yesOptionIds == {YES_BRANCH1, YES_BRANCH2, YES_BRANCH3, YES_BRANCH4}

\* MIN_SUBMISSION_TIME_SECONDS, in milliseconds
MIN_SUBMISSION_TIME_MS == 10000

STR_objectObject == <<"[", "o", "b", "j", "e", "c", "t", " ", "O", "b", "j", "e", "c", "t", "]">>

STR_null == <<"n", "u", "l", "l">>

STR_undefined == <<"u", "n", "d", "e", "f", "i", "n", "e", "d">>

STR_true == <<"t", "r", "u", "e">>

STR_false == <<"f", "a", "l", "s", "e">>

(***************************************************************************)
(* JSON values carried by a field: a tagged value [kind, v]                *)
(***************************************************************************)
StrV(s) == [kind |-> "string", v |-> s]

NumV(n) == [kind |-> "number", v |-> n]

BoolV(b) == [kind |-> "boolean", v |-> b]

ArrV(a) == [kind |-> "array", v |-> a]

\* an object with an id property
ObjIdV(id) == [kind |-> "object", v |-> <<id>>]

\* an object without an id property
ObjV == [kind |-> "object", v |-> <<>>]

NullV == [kind |-> "null", v |-> 0]

UndefV == [kind |-> "undefined", v |-> 0]

RECURSIVE String(_)
\* String(value) / value.toString(); an array joins its elements with ","
String(val) ==
  CASE val.kind = "string" -> val.v
    [] val.kind = "number" -> NumToStr(val.v)
    [] val.kind = "boolean" -> IF val.v THEN STR_true ELSE STR_false
    [] val.kind = "null" -> STR_null
    [] val.kind = "undefined" -> STR_undefined
    [] val.kind = "object" -> STR_objectObject
    [] val.kind = "array" ->
         IF Len(val.v) = 0 THEN <<>>
         ELSE LET head == IF val.v[1].kind \in {"null", "undefined"} THEN <<>>
                          ELSE String(val.v[1])
              IN IF Len(val.v) = 1 THEN head
                 ELSE head \o <<",">> \o String([kind |-> "array", v |-> Tail(val.v)])

\* value[0]?.toString() || ''
FirstElementString(arr) ==
  IF Len(arr) = 0 THEN <<>>
  ELSE IF arr[1].kind \in {"null", "undefined"} THEN <<>>
  ELSE String(arr[1])

\* a field of the internal submission format: {field: {id, title, type}, value}
Field(id, title, type, value) ==
  [id |-> id, title |-> title, type |-> type, value |-> value]


(***************************************************************************)
(* Field extractor and classifier (validation engine)                      *)
(***************************************************************************)
\* Array.prototype.find, given the indices of the fields that satisfy the predicate:
\* the first of them, 0 if there is none
FindFirst(matching) ==
  IF matching = {} THEN 0
  ELSE CHOOSE i \in matching : \A j \in matching : i <= j

\* the null result of extractEmail
NullEmail == [isNull |-> TRUE, str |-> <<>>]

\* a predicate that also accepts any field holding a string
IsEmailFieldAnyString(f) ==
  \/ f.type = "INPUT_EMAIL"
  \/ includes(toLowerCase(f.id), STR_email)
  \/ includes(toLowerCase(f.title), STR_email)
  \/ f.value.kind = "string"

\* the predicate extractEmail hands to find
IsEmailField(f) ==
  \/ f.type = "INPUT_EMAIL"
  \/ includes(toLowerCase(f.id), STR_email)
  \/ includes(toLowerCase(f.title), STR_email)

\* extractEmail without the lower-casing: the value is trimmed only
extractEmailNoLowerCase(fields) ==
  LET i == FindFirst({k \in 1..Len(fields) : IsEmailField(fields[k])})
  IN IF i # 0 /\ fields[i].value.kind = "string"
     THEN [isNull |-> FALSE, str |-> trim(fields[i].value.v)]
     ELSE NullEmail

\* extractEmail without the trim: the value is lower-cased only
extractEmailNoTrim(fields) ==
  LET i == FindFirst({k \in 1..Len(fields) : IsEmailField(fields[k])})
  IN IF i # 0 /\ fields[i].value.kind = "string"
     THEN [isNull |-> FALSE, str |-> toLowerCase(fields[i].value.v)]
     ELSE NullEmail

extractEmail(fields) ==
  LET i == FindFirst({k \in 1..Len(fields) : IsEmailField(fields[k])})
  IN IF i # 0 /\ fields[i].value.kind = "string"
     THEN [isNull |-> FALSE, str |-> trim(toLowerCase(fields[i].value.v))]
     ELSE NullEmail

\* a test for null only, which lets the empty string through
TruthyNotNull(email) == ~email.isNull

\* JavaScript truthiness of an extractEmail result: null and '' are falsy
Truthy(email) == ~email.isNull /\ Len(email.str) > 0

\* JavaScript truthiness of a field value (honeypotField.value)
TruthyValue(val) ==
  CASE val.kind = "string" -> Len(val.v) > 0
    [] val.kind = "number" -> val.v # 0
    [] val.kind = "boolean" -> val.v
    [] val.kind \in {"null", "undefined"} -> FALSE
    [] OTHER -> TRUE

IsHoneypotField(f) == f.id = HONEYPOT_FIELD_ID

checkHoneypot(fields) ==
  LET i == FindFirst({k \in 1..Len(fields) : IsHoneypotField(fields[k])})
  IN i # 0 /\ TruthyValue(fields[i].value)

\* elapsed milliseconds between form load and submit
calculateSubmissionTime(createdAt, submittedAt) == submittedAt - createdAt

\* the fail-open variants: the attention field is found by id or by title
IsAttentionFieldOpen(f) ==
  \/ f.id = ATTENTION_CHECK_FIELD_ID
  \/ includes(toLowerCase(f.title), ATTENTION_TITLE_OPEN)

\* the fail-open variants: the found value as a string
NormalizeOpen(val) ==
  CASE val.kind = "string" -> val.v
    [] val.kind = "array" -> FirstElementString(val.v)
    [] val.kind = "object" -> IF Len(val.v) > 0 THEN val.v[1] ELSE <<>>
    [] OTHER -> String(val)

checkAttentionAnswerOpen(fields) ==
  LET i == FindFirst({k \in 1..Len(fields) : IsAttentionFieldOpen(fields[k])})
  IN IF i = 0 THEN TRUE
     ELSE LET answer == NormalizeOpen(fields[i].value)
          IN \/ answer = ATTENTION_CHECK_CORRECT_ANSWER_OPEN
             \/ includes(answer, <<"1">>)
             \/ includes(toLowerCase(answer), STR_option1)

\* the label match without the requirement that the field carries a value
IsAttentionFieldClosedAnyValue(f) ==
  /\ Len(f.title) > 0
  /\ includes(toLowerCase(f.title), ATTENTION_CHECK_LABEL_PATTERN)

\* the fail-closed variant: the attention field is found by label and must be answered
IsAttentionFieldClosed(f) ==
  /\ Len(f.title) > 0
  /\ includes(toLowerCase(f.title), ATTENTION_CHECK_LABEL_PATTERN)
  /\ f.value.kind \notin {"null", "undefined"}

\* the fail-closed variant: the found value as a string
NormalizeClosed(val) ==
  CASE val.kind = "string" -> val.v
    [] val.kind = "array" -> FirstElementString(val.v)
    [] OTHER -> String(val)

checkAttentionAnswerClosed(fields) ==
  LET i == FindFirst({k \in 1..Len(fields) : IsAttentionFieldClosed(fields[k])})
  IN IF i = 0 THEN FALSE
     ELSE NormalizeClosed(fields[i].value) \in yesOptionIds

Variants == {"open", "closed", "bot"}

checkAttentionAnswer(v, fields) ==
  IF v = "closed" THEN checkAttentionAnswerClosed(fields)
  ELSE checkAttentionAnswerOpen(fields)

\* a ClassificationResult; ms is the elapsed time the reason interpolates (0 if none)
Result(c, r, ms) == [classification |-> c, reason |-> r, ms |-> ms]

\* the bot-detection rules with the timing rule evaluated before the honeypot rule
BotRuleTimingFirst(v, sub) ==
  IF v # "bot" THEN "none"
  ELSE IF calculateSubmissionTime(sub.createdAt, sub.submittedAt) < MIN_SUBMISSION_TIME_MS
       THEN "timing"
  ELSE IF checkHoneypot(sub.fields) THEN "honeypot"
  ELSE "none"

\* the bot-detection rules that run before the duplicate lookup (bot variant only)
BotRule(v, sub) ==
  IF v # "bot" THEN "none"
  ELSE IF checkHoneypot(sub.fields) THEN "honeypot"
  ELSE IF calculateSubmissionTime(sub.createdAt, sub.submittedAt) < MIN_SUBMISSION_TIME_MS
       THEN "timing"
  ELSE "none"

\* whether validateSubmission reaches checkDuplicateEmail
CallsDuplicateLookup(v, sub) ==
  BotRule(v, sub) = "none" /\ Truthy(extractEmail(sub.fields))

\* validateSubmission with the attention check moved before the duplicate check
validateSubmissionAttentionFirst(v, sub, isDuplicate) ==
  IF BotRule(v, sub) = "honeypot"
  THEN Result("bot", "Honeypot field was filled", 0)
  ELSE IF BotRule(v, sub) = "timing"
  THEN Result("bot", "Submission too fast",
              calculateSubmissionTime(sub.createdAt, sub.submittedAt))
  ELSE IF ~checkAttentionAnswer(v, sub.fields)
  THEN Result("attention_fail", "Failed attention check question", 0)
  ELSE IF Truthy(extractEmail(sub.fields)) /\ isDuplicate
  THEN Result(IF v = "bot" THEN "bot" ELSE "duplicate",
              "Duplicate email submission detected", 0)
  ELSE Result("valid", "All validation checks passed", 0)

\* validateSubmission that takes any stored row for a duplicate, whatever the lookup said
validateSubmissionReadsStore(v, sub, isDuplicate) ==
  IF BotRule(v, sub) = "honeypot"
  THEN Result("bot", "Honeypot field was filled", 0)
  ELSE IF BotRule(v, sub) = "timing"
  THEN Result("bot", "Submission too fast",
              calculateSubmissionTime(sub.createdAt, sub.submittedAt))
  ELSE IF Truthy(extractEmail(sub.fields)) /\ (isDuplicate \/ Len(rows) > 0)
  THEN Result(IF v = "bot" THEN "bot" ELSE "duplicate",
              "Duplicate email submission detected", 0)
  ELSE IF ~checkAttentionAnswer(v, sub.fields)
  THEN Result("attention_fail", "Failed attention check question", 0)
  ELSE Result("valid", "All validation checks passed", 0)

\* validateSubmission, given the result of its duplicate lookup
validateSubmission(v, sub, isDuplicate) ==
  IF BotRule(v, sub) = "honeypot"
  THEN Result("bot", "Honeypot field was filled", 0)
  ELSE IF BotRule(v, sub) = "timing"
  THEN Result("bot", "Submission too fast",
              calculateSubmissionTime(sub.createdAt, sub.submittedAt))
  ELSE IF Truthy(extractEmail(sub.fields)) /\ isDuplicate
  THEN Result(IF v = "bot" THEN "bot" ELSE "duplicate",
              "Duplicate email submission detected", 0)
  ELSE IF ~checkAttentionAnswer(v, sub.fields)
  THEN Result("attention_fail", "Failed attention check question", 0)
  ELSE Result("valid", "All validation checks passed", 0)


(***************************************************************************)
(* Inputs: the fields the form can deliver and the webhook payloads        *)
(***************************************************************************)
T_contact == <<"C", "o", "n", "t", "a", "c", "t">>

T_confirmEmail == <<"C", "o", "n", "f", "i", "r", "m", " ", "E", "m", "a", "i", "l">>

T_updates == <<"U", "p", "d", "a", "t", "e", "s">>

T_ifYouReadThis == <<"I", "f", " ", "y", "o", "u", " ", "r", "e", "a", "d", " ", "t", "h", "i", "s", ",", " ", "s", "e", "l", "e", "c", "t", " ", "o", "p", "t", "i", "o", "n", " ", "1">>

T_payingAttention == <<"H", "a", "v", "e", " ", "y", "o", "u", " ", "b", "e", "e", "n", " ", "p", "a", "y", "i", "n", "g", " ", "a", "t", "t", "e", "n", "t", "i", "o", "n", "?">>

T_age == <<"A", "g", "e">>

K_emailOptin == <<"E", "m", "a", "i", "l", "_", "o", "p", "t", "i", "n">>

V_emailA == <<" ", "A", "@", "X", ".", "c", "o", "m", " ">>

V_emaila == <<"a", "@", "x", ".", "c", "o", "m">>

V_emailAx == <<"A", "@", "x", ".", "c", "o", "m">>

V_emailB == <<"B", "@", "x", ".", "c", "o", "m">>

V_option1 == <<"O", "p", "t", "i", "o", "n", " ", "1">>

V_noUuid == <<"n", "o", "-", "u", "u", "i", "d">>

\* the fields the pure-function checks draw answer lists from
FieldPool == <<
  Field(<<"q", "1">>, T_contact, "INPUT_EMAIL", StrV(V_emailA)),
  Field(<<"q", "1">>, T_contact, "INPUT_EMAIL", NullV),
  Field(<<"q", "1">>, T_contact, "INPUT_EMAIL", StrV(<<" ">>)),
  Field(<<"q", "2">>, T_confirmEmail, "INPUT_TEXT", StrV(V_emailB)),
  Field(K_emailOptin, T_updates, "CHECKBOXES", ArrV(<<StrV(<<"1">>)>>)),
  Field(ATTENTION_CHECK_FIELD_ID, <<"Q">>, "MULTIPLE_CHOICE", StrV(<<"1">>)),
  Field(<<"q", "3">>, T_ifYouReadThis, "MULTIPLE_CHOICE", NullV),
  Field(<<"q", "3">>, T_ifYouReadThis, "MULTIPLE_CHOICE", ArrV(<<StrV(<<"2">>)>>)),
  Field(<<"q", "3">>, T_ifYouReadThis, "MULTIPLE_CHOICE", ObjIdV(V_option1)),
  Field(<<"q", "4">>, T_payingAttention, "MULTIPLE_CHOICE", ArrV(<<StrV(YES_BRANCH2)>>)),
  Field(<<"q", "4">>, T_payingAttention, "MULTIPLE_CHOICE", NullV),
  Field(<<"q", "5">>, T_payingAttention, "MULTIPLE_CHOICE", StrV(ATTENTION_CHECK_CORRECT_ANSWER_CLOSED)),
  Field(<<"q", "5">>, T_payingAttention, "MULTIPLE_CHOICE", ArrV(<<StrV(V_noUuid)>>)),
  Field(HONEYPOT_FIELD_ID, <<>>, "HIDDEN_FIELDS", StrV(<<"x">>)),
  Field(<<"q", "6">>, T_age, "INPUT_NUMBER", NumV(31)),
  Field(<<"q", "4">>, T_payingAttention, "MULTIPLE_CHOICE", ObjIdV(YES_BRANCH1))
>>

\* the answer list selected by a sequence of pool indices
FieldsOf(idx) == [i \in 1..Len(idx) |-> FieldPool[idx[i]]]

\* all sequences over S of length at most n
SeqsUpTo(S, n) == UNION {[1..k -> S] : k \in 0..n}

\* the attention field of a payload: answered correctly or wrongly for the variant
AttentionField(v, pass) ==
  IF v = "closed"
  THEN Field(<<"q", "4">>, T_payingAttention, "MULTIPLE_CHOICE",
             ArrV(<<StrV(IF pass THEN YES_BRANCH1 ELSE V_noUuid)>>))
  ELSE Field(<<"q", "3">>, T_ifYouReadThis, "MULTIPLE_CHOICE",
             ArrV(<<StrV(IF pass THEN <<"1">> ELSE <<"2">>)>>))

EmailField(s) == Field(<<"q", "1">>, T_contact, "INPUT_EMAIL", StrV(s))

\* a submission in the internal format (transformTallyPayload); times in ms
Submission(rid, fields, createdAt, submittedAt) ==
  [responseId |-> rid, fields |-> fields, createdAt |-> createdAt,
   submittedAt |-> submittedAt]

\* the form-webhook payloads the environment delivers, already transformed
Payloads(v) == <<
  Submission(1, <<EmailField(V_emailA), AttentionField(v, TRUE)>>, 0, 60000),
  Submission(2, <<EmailField(V_emaila), AttentionField(v, TRUE)>>, 0, 60000),
  Submission(3, <<EmailField(V_emailAx), AttentionField(v, FALSE)>>, 0, 60000),
  Submission(4, <<AttentionField(v, TRUE)>>, 0, 60000),
  Submission(5, <<EmailField(<<" ", " ">>), AttentionField(v, TRUE)>>, 0, 60000)
>>

PayloadIds == DOMAIN Payloads("open")

\* what handler A computes from a payload, tabulated per variant and payload
PayloadTable == [v \in Variants |-> Payloads(v)]

EmailTable == [v \in Variants |-> [i \in PayloadIds |-> extractEmail(Payloads(v)[i].fields)]]

LookupTable ==
  [v \in Variants |-> [i \in PayloadIds |-> CallsDuplicateLookup(v, Payloads(v)[i])]]

ValidationTable ==
  [v \in Variants |-> [i \in PayloadIds |-> [dup \in BOOLEAN |->
     validateSubmission(v, Payloads(v)[i], dup)]]]

(***************************************************************************)
(* State tuples and the shapes of the state                                *)
(***************************************************************************)
sysVars == <<variant, rows, hA, hB, promoCodes, outbox, out, hist>>

fnVars == <<fnVariant, fnFields, fnDup, fnElapsed, fnPc, fnEmail, fnResult, fnAgain>>

vars == <<variant, rows, hA, hB, promoCodes, outbox, out, hist,
          fnVariant, fnFields, fnDup, fnElapsed, fnPc, fnEmail, fnResult, fnAgain,
          issuer>>

ProcsA == 1..NumProcsA

ProcsB == 1..NumProcsB

\* promo_code NULL
NoCode == [row |-> 0, k |-> 0]

IdleA == [pc |-> "idle", payload |-> 0, classification |-> "", reason |-> "", seen |-> 0]

\* the body of a store webhook call: { type, table, record }
Event(type, table, record) == [type |-> type, table |-> table, record |-> record]

\* no store webhook call
NoEvent ==
  Event("", "", [id |-> 0, email |-> <<>>, classification |-> "",
                 promo_code |-> NoCode, email_sent |-> FALSE])

\* what a form webhook request meets at the signature check: whether
\* TALLY_WEBHOOK_SECRET is configured, and the signature header the request carries
Auth(secret, signature) == [secret |-> secret, signature |-> signature]

\* no signature check made
NoAuth == Auth(FALSE, "-")

SignatureHeaders == {"none", "matching", "other"}

\* a check that accepts, when a secret is configured, only a matching signature
verifyWebhookSignatureChecks(secret, signature) ==
  IF ~secret THEN TRUE ELSE signature = "matching"

\* verifyWebhookSignature
verifyWebhookSignature(secret, signature) ==
  IF ~secret THEN TRUE ELSE TRUE

\* the variant whose handler A calls verifyWebhookSignature
HasSignatureCheck(v) == v = "bot"

IdleB == [pc |-> "idle", id |-> 0, email |-> <<>>, code |-> NoCode, emailOk |-> FALSE,
          event |-> NoEvent]

NoOut == [handler |-> "-", status |-> 0, classification |-> "", message |-> "",
          promoCode |-> NoCode, emailSent |-> FALSE, ref |-> 0, rowExisted |-> FALSE,
          event |-> NoEvent, auth |-> NoAuth]

\* the response of handler A; ref is the payload, rowExisted records whether a row
\* with the submission's email was in the store when the duplicate lookup ran,
\* emailSent whether the invocation's abuse notification was accepted
RespA(status, classification, message, payload, existed, mailed) ==
  [handler |-> "A", status |-> status, classification |-> classification,
   message |-> message, promoCode |-> NoCode, emailSent |-> mailed, ref |-> payload,
   rowExisted |-> existed, event |-> NoEvent, auth |-> NoAuth]

\* the response of handler A's first step, with what the signature check met
RespAFirst(secret, signature, resp) ==
  IF HasSignatureCheck(variant)
  THEN IF verifyWebhookSignature(secret, signature)
       THEN [resp EXCEPT !.auth = Auth(secret, signature)]
       ELSE [RespA(401, "", "Invalid signature", resp.ref, FALSE, FALSE)
               EXCEPT !.auth = Auth(secret, signature)]
  ELSE resp

\* the response of handler B; ref is the id of the event's record, event the body
\* of the call it answers
RespB(status, message, code, emailSent, event) ==
  [handler |-> "B", status |-> status, classification |-> "", message |-> message,
   promoCode |-> code, emailSent |-> emailSent, ref |-> event.record.id,
   rowExisted |-> FALSE, event |-> event, auth |-> NoAuth]

\* slots are interchangeable: a new invocation takes the lowest idle one
LowestIdle(h, p) == h[p].pc = "idle" /\ \A q \in 1..(p - 1) : h[q].pc # "idle"

\* outcomes of a call to the persistence provider
StoreOutcomes == {"ok", "error"}

\* outcomes of promotionCodes.create
StripeOutcomes == {"ok", "invalid_request", "error"}

\* outcomes of a notifier call: accepted, failure returned in the result, exception
\* thrown before the send (missing email-provider configuration)
MailOutcomes == {"sent", "failed", "threw"}

(***************************************************************************)
(* Submission store adapter                                                *)
(***************************************************************************)
\* the table without the UNIQUE constraint
UniqueViolationNever(store, rid) == FALSE

\* the UNIQUE constraint on tally_response_id
UniqueViolation(store, rid) ==
  \E i \in 1..Len(store) : store[i].tally_response_id = rid

\* the row as the table stores it: promo_code NULL, email_sent FALSE, email_type NULL
NewRow(email, rid, answers, classification, reason) ==
  [email |-> email, tally_response_id |-> rid, answers |-> answers,
   classification |-> classification, classification_reason |-> reason,
   promo_code |-> NoCode, email_sent |-> FALSE, email_type |-> "null"]

\* insertSubmission that stores the row twice
insertSubmissionTwice(store, row, outcome) ==
  IF outcome = "error" \/ UniqueViolation(store, row.tally_response_id)
  THEN [ok |-> FALSE, store |-> store]
  ELSE [ok |-> TRUE, store |-> Append(Append(store, row), row)]

\* insertSubmission: the store after the insert, or "error" when it is rejected
insertSubmission(store, row, outcome) ==
  IF outcome = "error" \/ UniqueViolation(store, row.tally_response_id)
  THEN [ok |-> FALSE, store |-> store]
  ELSE [ok |-> TRUE, store |-> Append(store, row)]

\* checkDuplicateEmail reporting a duplicate only from the second stored row on
checkDuplicateEmailOffByOne(store, email) ==
  Cardinality({i \in 1..Len(store) : store[i].email = toLowerCase(email)}) > 1

\* checkDuplicateEmail that looks at valid rows only
checkDuplicateEmailValidOnly(store, email) ==
  \E i \in 1..Len(store) :
    store[i].email = toLowerCase(email) /\ store[i].classification = "valid"

\* checkDuplicateEmail: .eq('email', email.toLowerCase()).limit(1)
checkDuplicateEmail(store, email) ==
  \E i \in 1..Len(store) : store[i].email = toLowerCase(email)

\* The update as it would be without its .eq('id', submissionId) filter.
updateSubmissionWithRewardAllRows(store, submissionId, promoCode) ==
  [i \in 1..Len(store) |->
     [store[i] EXCEPT !.promo_code = promoCode, !.email_sent = TRUE,
                      !.email_type = "reward"]]

\* updateSubmissionWithReward that records the code but not that the email went out
updateSubmissionWithRewardCodeOnly(store, submissionId, promoCode) ==
  [i \in 1..Len(store) |->
     IF i = submissionId
     THEN [store[i] EXCEPT !.promo_code = promoCode]
     ELSE store[i]]

\* updateSubmissionWithReward: .update({...}).eq('id', submissionId)
updateSubmissionWithReward(store, submissionId, promoCode) ==
  [i \in 1..Len(store) |->
     IF i = submissionId
     THEN [store[i] EXCEPT !.promo_code = promoCode, !.email_sent = TRUE,
                           !.email_type = "reward"]
     ELSE store[i]]

(***************************************************************************)
(* Reward issuer and notifier adapters                                     *)
(***************************************************************************)
\* createPromoCode: one create call, and one retry with a longer suffix after a
\* StripeInvalidRequestError; calls counts the create calls, len the suffix length
createPromoCode(first, retry) ==
  IF first = "ok" THEN [ok |-> TRUE, calls |-> 1, len |-> 6]
  ELSE IF first = "invalid_request"
  THEN IF retry = "ok" THEN [ok |-> TRUE, calls |-> 2, len |-> 8]
       ELSE [ok |-> FALSE, calls |-> 2, len |-> 0]
  ELSE [ok |-> FALSE, calls |-> 1, len |-> 0]

\* the codes registered for the row with this id
CodesOf(id) == {c \in promoCodes : c.row = id}

\* a message accepted by the email provider
Mail(kind, to, code, ref, n) ==
  [kind |-> kind, to |-> to, code |-> code, ref |-> ref, n |-> n]

\* sendRewardEmail: the outbox after the call
sendRewardEmail(box, email, promoCode, id, outcome) ==
  IF outcome = "sent"
  THEN box \cup {Mail("reward", email, promoCode, id, 1)}
  ELSE box

\* sendAbuseEmail: the outbox after the call; rid is the response id it is sent for
sendAbuseEmail(box, email, rid, outcome) ==
  IF outcome = "sent"
  THEN box \cup {Mail("abuse", email, NoCode, rid,
                      1 + Cardinality({m \in box : m.kind = "abuse" /\ m.ref = rid}))}
  ELSE box

\* values of Math.random().toString(36): "0." and the base-36 digits of the
\* fraction, eleven of them as a rule, fewer when the fraction is short (0.5 is "0.i")
RandomStrings ==
  {<<"0", ".", "a", "a", "a", "a", "a", "a", "a", "a", "a", "a", "a">>,
   <<"0", ".", "a", "a", "a", "a", "a", "a", "b", "b", "b", "b", "b">>,
   <<"0", ".", "b", "b", "b", "b", "b", "b", "b", "b", "b", "b", "b">>,
   <<"0", ".", "i">>}

codePrefix == <<"S", "U", "R", "V", "E", "Y">>

\* `${codePrefix}-${suffix}` with the suffix taken from a random string
PromoCodeString(random, end) ==
  codePrefix \o <<"-">> \o toUpperCase(substring(random, 2, end))

\* what can go wrong in the provider besides a code that is already taken: a
\* request it rejects (unknown coupon), any other error (connection, authentication)
StripeFaults == {"none", "invalid_request", "error"}

\* stripe.promotionCodes.create: the class of its outcome, and for a rejected
\* request whether the code was taken
promotionCodesCreate(existing, code, fault) ==
  IF fault = "error" THEN [class |-> "error", cause |-> "error"]
  ELSE IF fault = "invalid_request"
  THEN [class |-> "invalid_request", cause |-> "other"]
  ELSE IF code \in existing
  THEN [class |-> "invalid_request", cause |-> "collision"]
  ELSE [class |-> "ok", cause |-> ""]

\* no call of createPromoCode under way, the provider holding no code
IdleIssuer ==
  [pc |-> "idle", existing |-> {}, code |-> <<>>, retryCode |-> <<>>, calls |-> 0,
   cause |-> "", result |-> <<>>]

(***************************************************************************)
(* Ingress handler A: the form webhook                                     *)
(***************************************************************************)
\* step 3 of POST: no email found, respond 400 before any other processing
A_NoEmail(p, i, secret, signature) ==
  /\ out = NoOut
  /\ LowestIdle(hA, p)
  /\ ~Truthy(EmailTable[variant][i])
  /\ out' = RespAFirst(secret, signature,
                       RespA(400, "", "No email found", i, FALSE, FALSE))
  /\ UNCHANGED <<variant, rows, hA, hB, promoCodes, outbox, hist>>

\* handler A with a duplicate lookup that reports "no duplicate" when it fails
A_ValidateLookupFailOpen(p, i, lookup, secret, signature) ==
  LET email == EmailTable[variant][i]
      existed == checkDuplicateEmail(rows, email.str)
      res == ValidationTable[variant][i][existed /\ lookup = "ok"]
      rejected == HasSignatureCheck(variant) /\ ~verifyWebhookSignature(secret, signature)
  IN /\ out = NoOut
     /\ LowestIdle(hA, p)
     /\ Truthy(email)
     /\ LookupTable[variant][i] \/ lookup = "ok"
     /\ IF rejected
        THEN /\ out' = RespAFirst(secret, signature, RespA(0, "", "", i, FALSE, FALSE))
             /\ hA' = hA
        ELSE IF res.classification \in {"valid", "attention_fail"}
        THEN /\ hA' = [hA EXCEPT ![p] = [pc |-> "insert", payload |-> i,
                                         classification |-> res.classification,
                                         reason |-> res.reason, seen |-> Len(rows)]]
             /\ out' = NoOut
        ELSE /\ out' = RespAFirst(secret, signature,
                         RespA(200, res.classification, "", i,
                               LookupTable[variant][i] /\ existed, FALSE))
             /\ hA' = hA
     /\ UNCHANGED <<variant, rows, hB, promoCodes, outbox, hist>>

\* steps 1-4 of POST: parse, extract the email, run validateSubmission; a
\* classification that stores nothing is answered at once
A_Validate(p, i, lookup, secret, signature) ==
  LET email == EmailTable[variant][i]
      existed == checkDuplicateEmail(rows, email.str)
      res == ValidationTable[variant][i][existed]
      rejected == HasSignatureCheck(variant) /\ ~verifyWebhookSignature(secret, signature)
  IN /\ out = NoOut
     /\ LowestIdle(hA, p)
     /\ Truthy(email)
     /\ LookupTable[variant][i] \/ lookup = "ok"
     /\ IF rejected
        THEN /\ out' = RespAFirst(secret, signature, RespA(0, "", "", i, FALSE, FALSE))
             /\ hA' = hA
        ELSE IF LookupTable[variant][i] /\ lookup = "error"
        THEN /\ out' = RespAFirst(secret, signature,
                         RespA(500, "", "Internal server error", i, existed, FALSE))
             /\ hA' = hA
        ELSE IF res.classification \in {"valid", "attention_fail"}
        THEN /\ hA' = [hA EXCEPT ![p] = [pc |-> "insert", payload |-> i,
                                         classification |-> res.classification,
                                         reason |-> res.reason, seen |-> Len(rows)]]
             /\ out' = NoOut
        ELSE /\ out' = RespAFirst(secret, signature,
                         RespA(200, res.classification, "", i,
                               LookupTable[variant][i] /\ existed, FALSE))
             /\ hA' = hA
     /\ UNCHANGED <<variant, rows, hB, promoCodes, outbox, hist>>

\* step 5 of POST, cases 'valid' and 'attention_fail': insertSubmission
A_Insert(p, outcome) ==
  LET sub == PayloadTable[variant][hA[p].payload]
      email == EmailTable[variant][hA[p].payload]
      ins == insertSubmission(rows,
               NewRow(email.str, sub.responseId, hA[p].payload,
                      hA[p].classification, hA[p].reason),
               outcome)
  IN /\ out = NoOut
     /\ hA[p].pc = "insert"
     /\ rows' = ins.store
     /\ hist' = IF ins.ok THEN Append(hist, [seen |-> hA[p].seen, events |-> 0])
                ELSE hist
     /\ IF ~ins.ok
        THEN /\ out' = RespA(500, "", "Internal server error", hA[p].payload, FALSE,
                             FALSE)
             /\ hA' = [hA EXCEPT ![p] = IdleA]
        ELSE IF hA[p].classification = "attention_fail"
        THEN /\ out' = NoOut
             /\ hA' = [hA EXCEPT ![p].pc = "notify"]
        ELSE /\ out' = RespA(200, "valid", "", hA[p].payload, FALSE, FALSE)
             /\ hA' = [hA EXCEPT ![p] = IdleA]
     /\ UNCHANGED <<variant, hB, promoCodes, outbox>>

\* step 5 of POST, case 'attention_fail': sendAbuseEmail, then respond
\* The handler as it would be if it recorded the notification with
\* markAbuseEmailSent after a delivered abuse email.
A_SendAbuseMarksRow(p, outcome) ==
  LET sub == PayloadTable[variant][hA[p].payload]
      email == EmailTable[variant][hA[p].payload]
  IN /\ out = NoOut
     /\ hA[p].pc = "notify"
     /\ outbox' = sendAbuseEmail(outbox, email.str, sub.responseId, outcome)
     /\ out' = IF outcome = "threw"
               THEN RespA(500, "", "Internal server error", hA[p].payload, FALSE,
                          FALSE)
               ELSE RespA(200, "attention_fail", "", hA[p].payload, FALSE,
                          outcome = "sent")
     /\ hA' = [hA EXCEPT ![p] = IdleA]
     /\ rows' = [i \in 1..Len(rows) |->
                  IF outcome = "sent"
                     /\ rows[i].tally_response_id = sub.responseId
                  THEN [rows[i] EXCEPT !.email_sent = TRUE,
                                       !.email_type = "abuse"]
                  ELSE rows[i]]
     /\ UNCHANGED <<variant, hB, promoCodes, hist>>

A_SendAbuse(p, outcome) ==
  LET sub == PayloadTable[variant][hA[p].payload]
      email == EmailTable[variant][hA[p].payload]
  IN /\ out = NoOut
     /\ hA[p].pc = "notify"
     /\ outbox' = sendAbuseEmail(outbox, email.str, sub.responseId, outcome)
     /\ out' = IF outcome = "threw"
               THEN RespA(500, "", "Internal server error", hA[p].payload, FALSE,
                          FALSE)
               ELSE RespA(200, "attention_fail", "", hA[p].payload, FALSE,
                          outcome = "sent")
     /\ hA' = [hA EXCEPT ![p] = IdleA]
     /\ UNCHANGED <<variant, rows, hB, promoCodes, hist>>

(***************************************************************************)
(* Ingress handler B: the store-insert webhook                             *)
(***************************************************************************)
\* the record an event about row id carries: the row as it was inserted (fresh)
\* or the row as it is now
Record(id, fresh) ==
  [id |-> id, email |-> rows[id].email, classification |-> rows[id].classification,
   promo_code |-> IF fresh THEN NoCode ELSE rows[id].promo_code,
   email_sent |-> IF fresh THEN FALSE ELSE rows[id].email_sent]

\* the filters of handler B without the classification filter
IgnoreMessageAnyClassification(type, table, record) ==
  IF type # "INSERT" \/ table # "submissions" THEN "Event ignored"
  ELSE IF record.promo_code # NoCode \/ record.email_sent THEN "Already processed"
  ELSE ""

\* the filters of handler B without the test for a record that was processed
IgnoreMessageNoIdempotency(type, table, record) ==
  IF type # "INSERT" \/ table # "submissions" THEN "Event ignored"
  ELSE IF record.classification # "valid" THEN "Non-valid submission ignored"
  ELSE ""

\* steps 2-4 of POST: the message of the 200 response that ignores the event, or ""
IgnoreMessage(type, table, record) ==
  IF type # "INSERT" \/ table # "submissions" THEN "Event ignored"
  ELSE IF record.classification # "valid" THEN "Non-valid submission ignored"
  ELSE IF record.promo_code # NoCode \/ record.email_sent THEN "Already processed"
  ELSE ""

EventKinds == {<<"INSERT", "submissions">>, <<"UPDATE", "submissions">>,
               <<"INSERT", "other">>}

\* steps 1-4 of POST: an event that is ignored
B_Ignore(id, kind, fresh) ==
  /\ out = NoOut
  /\ id \in 1..Len(rows)
  /\ IgnoreMessage(kind[1], kind[2], Record(id, fresh)) # ""
  /\ out' = RespB(200, IgnoreMessage(kind[1], kind[2], Record(id, fresh)),
                  NoCode, FALSE, Event(kind[1], kind[2], Record(id, fresh)))
  /\ UNCHANGED <<variant, rows, hA, hB, promoCodes, outbox, hist>>

\* handler B with an issuer whose failed call leaves a code registered
B_CreatePromoCodeFailureKeepsCode(b, id, fresh, first, retry) ==
  LET res == createPromoCode(first, retry)
      code == [row |-> id, k |-> 1 + Cardinality(CodesOf(id))]
      event == Event("INSERT", "submissions", Record(id, fresh))
  IN /\ out = NoOut
     /\ LowestIdle(hB, b)
     /\ id \in 1..Len(rows)
     /\ Cardinality(promoCodes) < MaxMints
     /\ IgnoreMessage("INSERT", "submissions", Record(id, fresh)) = ""
     /\ first = "invalid_request" \/ retry = "ok"
     /\ hist' = [hist EXCEPT ![id].events = IF @ = 0 THEN 1 ELSE 2]
     /\ promoCodes' = promoCodes \cup
          {[code |-> code, email |-> rows[id].email, row |-> id]}
     /\ IF res.ok
        THEN /\ hB' = [hB EXCEPT ![b] = [pc |-> "send", id |-> id,
                                         email |-> rows[id].email, code |-> code,
                                         emailOk |-> FALSE, event |-> event]]
             /\ out' = NoOut
        ELSE /\ out' = RespB(500, "Internal server error", NoCode, FALSE, event)
             /\ hB' = hB
     /\ UNCHANGED <<variant, rows, hA, outbox>>

\* steps 1-5 of POST: an event that passes the filters, then createPromoCode
B_CreatePromoCode(b, id, fresh, first, retry) ==
  LET res == createPromoCode(first, retry)
      code == [row |-> id, k |-> 1 + Cardinality(CodesOf(id))]
      event == Event("INSERT", "submissions", Record(id, fresh))
  IN /\ out = NoOut
     /\ LowestIdle(hB, b)
     /\ id \in 1..Len(rows)
     /\ Cardinality(promoCodes) < MaxMints
     /\ IgnoreMessage("INSERT", "submissions", Record(id, fresh)) = ""
     /\ first = "invalid_request" \/ retry = "ok"
     /\ hist' = [hist EXCEPT ![id].events = IF @ = 0 THEN 1 ELSE 2]
     /\ IF res.ok
        THEN /\ promoCodes' = promoCodes \cup
                  {[code |-> code, email |-> rows[id].email, row |-> id]}
             /\ hB' = [hB EXCEPT ![b] = [pc |-> "send", id |-> id,
                                         email |-> rows[id].email, code |-> code,
                                         emailOk |-> FALSE, event |-> event]]
             /\ out' = NoOut
        ELSE /\ out' = RespB(500, "Internal server error", NoCode, FALSE, event)
             /\ UNCHANGED <<promoCodes, hB>>
     /\ UNCHANGED <<variant, rows, hA, outbox>>

\* step 6 of POST: sendRewardEmail
B_SendRewardEmail(b, outcome) ==
  /\ out = NoOut
  /\ hB[b].pc = "send"
  /\ outbox' = sendRewardEmail(outbox, hB[b].email, hB[b].code, hB[b].id, outcome)
  /\ IF outcome = "threw"
     THEN /\ out' = RespB(500, "Internal server error", NoCode, FALSE, hB[b].event)
          /\ hB' = [hB EXCEPT ![b] = IdleB]
     ELSE /\ out' = NoOut
          /\ hB' = [hB EXCEPT ![b].pc = "update", ![b].emailOk = (outcome = "sent")]
  /\ UNCHANGED <<variant, rows, hA, promoCodes, hist>>

\* step 7 of POST: updateSubmissionWithReward, then respond
B_Update(b, outcome) ==
  /\ out = NoOut
  /\ hB[b].pc = "update"
  /\ IF outcome = "ok"
     THEN /\ rows' = updateSubmissionWithReward(rows, hB[b].id, hB[b].code)
          /\ out' = RespB(200, "", hB[b].code, hB[b].emailOk, hB[b].event)
     ELSE /\ rows' = rows
          /\ out' = RespB(500, "Internal server error", NoCode, FALSE, hB[b].event)
  /\ hB' = [hB EXCEPT ![b] = IdleB]
  /\ UNCHANGED <<variant, hA, promoCodes, outbox, hist>>

(***************************************************************************)
(* The pipeline                                                            *)
(***************************************************************************)
FnIdle ==
  /\ fnVariant = "open"
  /\ fnFields = <<>>
  /\ fnDup = FALSE
  /\ fnElapsed = 0
  /\ fnPc = "off"
  /\ fnEmail = NullEmail
  /\ fnResult = Result("", "", 0)
  /\ fnAgain = Result("", "", 0)

Init ==
  /\ variant \in Variants
  /\ rows = <<>>
  /\ hA = [p \in ProcsA |-> IdleA]
  /\ hB = [b \in ProcsB |-> IdleB]
  /\ promoCodes = {}
  /\ outbox = {}
  /\ out = NoOut
  /\ hist = <<>>
  /\ FnIdle
  /\ issuer = IdleIssuer

\* the caller takes the response before the next step of any handler
ResponseReturned ==
  /\ out # NoOut
  /\ out' = NoOut
  /\ UNCHANGED <<variant, rows, hA, hB, promoCodes, outbox, hist>>
  /\ UNCHANGED <<fnVars, issuer>>

ReceiveFormNoEmail ==
  /\ \E p \in ProcsA, i \in PayloadIds, secret \in BOOLEAN,
        signature \in SignatureHeaders : A_NoEmail(p, i, secret, signature)
  /\ UNCHANGED <<fnVars, issuer>>

ReceiveFormValidate ==
  /\ \E p \in ProcsA, i \in PayloadIds, lookup \in StoreOutcomes, secret \in BOOLEAN,
        signature \in SignatureHeaders : A_Validate(p, i, lookup, secret, signature)
  /\ UNCHANGED <<fnVars, issuer>>

FormInsert ==
  /\ \E p \in ProcsA, outcome \in StoreOutcomes : A_Insert(p, outcome)
  /\ UNCHANGED <<fnVars, issuer>>

FormSendAbuse ==
  /\ \E p \in ProcsA, outcome \in MailOutcomes : A_SendAbuse(p, outcome)
  /\ UNCHANGED <<fnVars, issuer>>

InsertEventIgnored ==
  /\ \E id \in 1..Len(rows), kind \in EventKinds, fresh \in BOOLEAN :
       B_Ignore(id, kind, fresh)
  /\ UNCHANGED <<fnVars, issuer>>

InsertEventMint ==
  /\ \E b \in ProcsB, id \in 1..Len(rows), fresh \in BOOLEAN,
        first \in StripeOutcomes, retry \in {"ok", "error"} :
          B_CreatePromoCode(b, id, fresh, first, retry)
  /\ UNCHANGED <<fnVars, issuer>>

RewardSend ==
  /\ \E b \in ProcsB, outcome \in MailOutcomes : B_SendRewardEmail(b, outcome)
  /\ UNCHANGED <<fnVars, issuer>>

RewardUpdate ==
  /\ \E b \in ProcsB, outcome \in StoreOutcomes : B_Update(b, outcome)
  /\ UNCHANGED <<fnVars, issuer>>

Next ==
  \/ ReceiveFormNoEmail
  \/ ReceiveFormValidate
  \/ FormInsert
  \/ FormSendAbuse
  \/ InsertEventIgnored
  \/ InsertEventMint
  \/ RewardSend
  \/ RewardUpdate
  \/ ResponseReturned

Spec == Init /\ [][Next]_vars

(***************************************************************************)
(* The pure functions applied to bounded inputs                            *)
(***************************************************************************)
FnInit ==
  /\ variant = "open"
  /\ rows = <<>>
  /\ hA = [p \in ProcsA |-> IdleA]
  /\ hB = [b \in ProcsB |-> IdleB]
  /\ promoCodes = {}
  /\ outbox = {}
  /\ out = NoOut
  /\ hist = <<>>
  /\ fnVariant \in Variants
  /\ fnFields \in SeqsUpTo(DOMAIN FieldPool, MaxFields)
  /\ fnDup \in BOOLEAN
  /\ fnElapsed \in {4000, 20000}
  /\ fnPc = "input"
  /\ fnEmail = NullEmail
  /\ fnResult = Result("", "", 0)
  /\ fnAgain = Result("", "", 0)
  /\ issuer = IdleIssuer

\* the submission the pure-function checks validate
FnSubmission == Submission(0, FieldsOf(fnFields), 0, fnElapsed)

FnExtractEmail ==
  /\ UNCHANGED sysVars
  /\ fnPc = "input"
  /\ fnEmail' = extractEmail(FieldsOf(fnFields))
  /\ fnPc' = "extracted"
  /\ UNCHANGED <<fnVariant, fnFields, fnDup, fnElapsed, fnResult, fnAgain, issuer>>

FnValidate ==
  /\ UNCHANGED sysVars
  /\ fnPc = "extracted"
  /\ fnResult' = validateSubmission(fnVariant, FnSubmission, fnDup)
  /\ fnPc' = "validated"
  /\ UNCHANGED <<fnVariant, fnFields, fnDup, fnElapsed, fnEmail, fnAgain, issuer>>

\* between two calls another invocation stores a row
FnStoreChanges ==
  /\ fnPc = "validated"
  /\ rows = <<>>
  /\ rows' = insertSubmission(rows, NewRow(V_emaila, 9, 1, "valid",
                                          "All validation checks passed"), "ok").store
  /\ UNCHANGED <<variant, hA, hB, promoCodes, outbox, out, hist>>
  /\ UNCHANGED <<fnVars, issuer>>

\* validateSubmission called again with the same submission and lookup result
FnValidateAgain ==
  /\ fnPc = "validated"
  /\ fnAgain' = validateSubmission(fnVariant, FnSubmission, fnDup)
  /\ fnPc' = "revalidated"
  /\ UNCHANGED sysVars
  /\ UNCHANGED <<fnVariant, fnFields, fnDup, fnElapsed, fnEmail, fnResult, issuer>>

FnNext ==
  \/ FnExtractEmail
  \/ FnValidate
  \/ FnStoreChanges
  \/ FnValidateAgain

SpecFn == FnInit /\ [][FnNext]_vars

(***************************************************************************)
(* One call of createPromoCode against the payment provider                *)
(***************************************************************************)
IssuerInit ==
  /\ variant = "open"
  /\ rows = <<>>
  /\ hA = [p \in ProcsA |-> IdleA]
  /\ hB = [b \in ProcsB |-> IdleB]
  /\ promoCodes = {}
  /\ outbox = {}
  /\ out = NoOut
  /\ hist = <<>>
  /\ FnIdle
  /\ issuer = IdleIssuer

\* the suffix is drawn and the first create call made
IssuerFirstCreate(random, fault) ==
  LET code == PromoCodeString(random, 8)
      res == promotionCodesCreate(issuer.existing, code, fault)
  IN /\ issuer.pc = "idle"
     /\ Cardinality(issuer.existing) < MaxCodes
     /\ issuer' =
          IF res.class = "ok"
          THEN [issuer EXCEPT !.pc = "returned", !.code = code, !.calls = 1,
                              !.result = code, !.existing = @ \cup {code}]
          ELSE IF res.class = "invalid_request"
          THEN [issuer EXCEPT !.pc = "retry", !.code = code, !.calls = 1,
                              !.cause = res.cause]
          ELSE [issuer EXCEPT !.pc = "threw", !.code = code, !.calls = 1,
                              !.cause = res.cause]

\* the catch block after a StripeInvalidRequestError: a second create call
IssuerRetryCreate(random, fault) ==
  LET code == PromoCodeString(random, 10)
      res == promotionCodesCreate(issuer.existing, code, fault)
  IN /\ issuer.pc = "retry"
     /\ issuer' =
          IF res.class = "ok"
          THEN [issuer EXCEPT !.pc = "returned", !.retryCode = code, !.calls = 2,
                              !.result = code, !.existing = @ \cup {code}]
          ELSE [issuer EXCEPT !.pc = "threw", !.retryCode = code, !.calls = 2]

CreatePromoCodeFirst ==
  /\ \E random \in RandomStrings, fault \in StripeFaults :
       IssuerFirstCreate(random, fault)
  /\ UNCHANGED <<sysVars, fnVars>>

CreatePromoCodeRetry ==
  /\ \E random \in RandomStrings, fault \in StripeFaults :
       IssuerRetryCreate(random, fault)
  /\ UNCHANGED <<sysVars, fnVars>>

\* the caller has the code or the exception; the provider keeps its codes
CreatePromoCodeDone ==
  /\ issuer.pc \in {"returned", "threw"}
  /\ issuer' = [IdleIssuer EXCEPT !.existing = issuer.existing]
  /\ UNCHANGED <<sysVars, fnVars>>

IssuerNext ==
  \/ CreatePromoCodeFirst
  \/ CreatePromoCodeRetry
  \/ CreatePromoCodeDone

SpecIssuer == IssuerInit /\ [][IssuerNext]_vars

(***************************************************************************)
(* Properties of the pipeline                                              *)
(***************************************************************************)
\* C1: however often the insert event of a row is delivered to handler B, each
\* delivery carrying the record as it was inserted, at most one reward code is
\* minted for the row and at most one reward email is sent for it
C1_AtMostOneRewardPerRow ==
  \A id \in 1..Len(rows) :
    /\ Cardinality(CodesOf(id)) <= 1
    /\ Cardinality({m \in outbox : m.kind = "reward" /\ m.ref = id}) <= 1

\* C2: under any sequential or concurrent redelivery of a form submission to
\* handler A, the store never holds two rows with the same tally_response_id
C2_ResponseIdUnique ==
  \A i, j \in 1..Len(rows) :
    rows[i].tally_response_id = rows[j].tally_response_id => i = j

\* a redelivery of a valid submission passed the duplicate lookup before the first
\* delivery inserted its row, and its own insert was then refused
C2_RedeliveryRefused ==
  /\ out.handler = "A"
  /\ out.status = 500
  /\ ~out.rowExisted
  /\ ValidationTable[variant][out.ref][FALSE].classification = "valid"
  /\ Cardinality({i \in 1..Len(rows) :
        rows[i].tally_response_id = PayloadTable[variant][out.ref].responseId}) = 1

\* C3: two rows carry the same email only when the duplicate lookup of the
\* invocation that inserted the later row ran before the earlier row was inserted,
\* and a row that carries a reward code carries one minted for that very row
C3_SameEmailOnlyByRace ==
  /\ \A i, j \in 1..Len(rows) :
       (i < j /\ rows[i].email = rows[j].email) => hist[j].seen < i
  /\ \A i \in 1..Len(rows) :
       rows[i].promo_code # NoCode =>
         /\ rows[i].promo_code.row = i
         /\ \E c \in CodesOf(i) : c.code = rows[i].promo_code

\* two submissions with different response ids and the same new email both ran the
\* lookup on the empty store, both were stored as valid, and each row has since
\* received its own reward code
C3_BothRowsRewarded ==
  \E i, j \in 1..Len(rows) :
    /\ i < j
    /\ rows[i].email = rows[j].email
    /\ rows[i].tally_response_id # rows[j].tally_response_id
    /\ rows[i].classification = "valid"
    /\ rows[j].classification = "valid"
    /\ hist[i].seen = 0
    /\ hist[j].seen = 0
    /\ rows[i].promo_code # NoCode
    /\ rows[j].promo_code # NoCode
    /\ rows[i].promo_code # rows[j].promo_code

\* C4 as stated: in the variants without bot detection, whenever a row with the
\* submission's email exists when handler A runs the duplicate lookup, the
\* response is 200 with classification duplicate, no row is inserted and no
\* email is sent; and a row is added beside one with the same email only by an
\* invocation whose lookup ran before that row was inserted
C4_DuplicateWheneverRowExists ==
  [][/\ (out'.handler = "A" /\ out'.rowExisted /\ variant # "bot") =>
          /\ out'.status = 200
          /\ out'.classification = "duplicate"
          /\ rows' = rows
          /\ outbox' = outbox
          /\ hA' = hA
     /\ (variant # "bot" /\ Len(rows') > Len(rows)) =>
          \A i \in 1..Len(rows) :
            rows[i].email = rows'[Len(rows')].email => hist'[Len(rows')].seen < i
    ]_vars

\* C4, amended: as C4 when the lookup call succeeds; when the lookup call fails
\* the response is 500, and still no row is inserted and no email is sent
C4_DuplicateUnlessLookupFails ==
  [][/\ (out'.handler = "A" /\ out'.rowExisted /\ variant # "bot") =>
          /\ out'.status \in {200, 500}
          /\ out'.status = 200 => out'.classification = "duplicate"
          /\ rows' = rows
          /\ outbox' = outbox
          /\ hA' = hA
     /\ (variant # "bot" /\ Len(rows') > Len(rows)) =>
          \A i \in 1..Len(rows) :
            rows[i].email = rows'[Len(rows')].email => hist'[Len(rows')].seen < i
    ]_vars

\* a submission that answers the attention check wrongly arrived after a row with
\* its email was stored, and was answered 200 duplicate with nothing stored
C4_WrongAnswerStillDuplicate ==
  /\ variant # "bot"
  /\ out.handler = "A"
  /\ out.status = 200
  /\ out.classification = "duplicate"
  /\ out.rowExisted
  /\ ValidationTable[variant][out.ref][FALSE].classification = "attention_fail"
  /\ Len(rows) = 1
  /\ outbox = {}

C6_ValidRewardedOnce ==
  (/\ out.handler = "B"
   /\ out.status = 200
   /\ out.message = ""
   /\ out.emailSent
   /\ hist[out.ref].events = 1) =>
    LET id == out.ref
        r == rows[id]
    IN /\ r.classification = "valid"
       /\ {i \in 1..Len(rows) : rows[i].tally_response_id = r.tally_response_id} = {id}
       /\ CodesOf(id) = {[code |-> out.promoCode, email |-> r.email, row |-> id]}
       /\ {m \in outbox : m.kind = "reward" /\ m.ref = id} =
            {Mail("reward", r.email, out.promoCode, id, 1)}
       /\ out.promoCode # NoCode
       /\ r.promo_code = out.promoCode
       /\ r.email_sent
       /\ r.email_type = "reward"

\* handler A stored a valid row and the one delivery of its insert event to
\* handler B completed with the reward recorded on the row
C6_FirstDeliveryCompleted ==
  /\ out.handler = "B"
  /\ out.status = 200
  /\ out.message = ""
  /\ out.emailSent
  /\ hist[out.ref].events = 1
  /\ rows[out.ref].classification = "valid"
  /\ rows[out.ref].email_type = "reward"
  /\ Cardinality(outbox) = 1

(***************************************************************************)
(* Properties of the pure functions                                        *)
(***************************************************************************)
\* C7: a submission that is not a duplicate and whose attention fields all carry
\* exactly the configured correct token ('1' fail-open, 'Yes' fail-closed) is not
\* classified attention_fail
C7_TokenNeverAttentionFail ==
  LET F == FieldsOf(fnFields)
      token == IF fnVariant = "closed" THEN ATTENTION_CHECK_CORRECT_ANSWER_CLOSED
               ELSE ATTENTION_CHECK_CORRECT_ANSWER_OPEN
      att == {i \in 1..Len(F) :
                IF fnVariant = "closed"
                THEN includes(toLowerCase(F[i].title), ATTENTION_CHECK_LABEL_PATTERN)
                ELSE \/ F[i].id = ATTENTION_CHECK_FIELD_ID
                     \/ includes(toLowerCase(F[i].title), ATTENTION_TITLE_OPEN)}
  IN (/\ fnPc = "validated"
      /\ ~(fnDup /\ Truthy(fnEmail))
      /\ att # {}
      /\ \A i \in att : F[i].value = StrV(token)) =>
       fnResult.classification # "attention_fail"

\* C8: in the fail-open variants a submission in which no attention field carries
\* an answer (there is none, or each one holds null or undefined) passes the
\* attention check: if it is neither a duplicate nor a bot, it is valid
C8_UnansweredPassesFailOpen ==
  LET F == FieldsOf(fnFields)
  IN (/\ fnPc = "validated"
      /\ fnVariant \in {"open", "bot"}
      /\ ~(fnDup /\ Truthy(fnEmail))
      /\ BotRule(fnVariant, FnSubmission) = "none"
      /\ \A i \in 1..Len(F) :
           (\/ F[i].id = ATTENTION_CHECK_FIELD_ID
            \/ includes(toLowerCase(F[i].title), ATTENTION_TITLE_OPEN)) =>
             F[i].value.kind \in {"null", "undefined"}) =>
       fnResult.classification = "valid"

\* C9: in the fail-closed variant a submission that is not a duplicate is
\* attention_fail when no field whose label contains the attention pattern holds a
\* value other than null and undefined; otherwise the first such field in field
\* order that holds a value decides alone: valid if its answer is one of the Yes
\* options, attention_fail if not
C9_FirstAnsweredFieldDecides ==
  LET F == FieldsOf(fnFields)
      answered == {i \in 1..Len(F) :
                     /\ includes(toLowerCase(F[i].title), ATTENTION_CHECK_LABEL_PATTERN)
                     /\ F[i].value.kind \notin {"null", "undefined"}}
      first == CHOOSE i \in answered : \A j \in answered : i <= j
  IN (fnPc = "validated" /\ fnVariant = "closed" /\ ~(fnDup /\ Truthy(fnEmail))) =>
       IF answered = {}
       THEN fnResult.classification = "attention_fail"
       ELSE fnResult.classification =
              IF NormalizeClosed(F[first].value) \in yesOptionIds
              THEN "valid" ELSE "attention_fail"

\* the attention question of one branch is unanswered, the one of the next branch
\* is answered Yes, and the submission is valid
C9_SecondBranchDecides ==
  /\ fnPc = "validated"
  /\ fnVariant = "closed"
  /\ ~fnDup
  /\ Len(fnFields) = 2
  /\ FieldPool[fnFields[1]].title = T_payingAttention
  /\ FieldPool[fnFields[1]].value = NullV
  /\ FieldPool[fnFields[2]].title = T_payingAttention
  /\ FieldPool[fnFields[2]].value = ArrV(<<StrV(YES_BRANCH2)>>)
  /\ fnResult.classification = "valid"

\* C10 as stated: whenever the answer list contains a field of type INPUT_EMAIL
\* (the first one, holding a string), extractEmail returns the value of that field
\* lower-cased and trimmed, whatever the other fields and their order
C10_TypedFieldAlwaysWins ==
  LET F == FieldsOf(fnFields)
  IN fnPc # "input" =>
       \A i \in 1..Len(F) :
         (/\ F[i].type = "INPUT_EMAIL"
          /\ F[i].value.kind = "string"
          /\ \A j \in 1..(i - 1) : F[j].type # "INPUT_EMAIL") =>
           fnEmail = [isNull |-> FALSE, str |-> trim(toLowerCase(F[i].value.v))]

\* C10, amended: when the first field of the answer list that has type INPUT_EMAIL
\* or whose identifier or label contains 'email' is a field of type INPUT_EMAIL
\* holding a string, extractEmail returns that string lower-cased and trimmed,
\* whatever the fields after it; when that first field holds no string, or there
\* is no such field, it returns null
C10_FirstEmailFieldWins ==
  LET F == FieldsOf(fnFields)
      hits == {i \in 1..Len(F) :
                 \/ F[i].type = "INPUT_EMAIL"
                 \/ includes(toLowerCase(F[i].id), STR_email)
                 \/ includes(toLowerCase(F[i].title), STR_email)}
      first == CHOOSE i \in hits : \A j \in hits : i <= j
  IN fnPc # "input" =>
       IF hits # {} /\ F[first].value.kind = "string"
       THEN fnEmail = [isNull |-> FALSE, str |-> trim(toLowerCase(F[first].value.v))]
       ELSE fnEmail = NullEmail

\* an INPUT_EMAIL field holding ' A@X.com ' follows a field that is no email field,
\* and extractEmail returned 'a@x.com'
C10_TypedFieldExtracted ==
  /\ fnPc = "extracted"
  /\ Len(fnFields) = 2
  /\ FieldPool[fnFields[1]].title = T_age
  /\ FieldPool[fnFields[2]].type = "INPUT_EMAIL"
  /\ FieldPool[fnFields[2]].value = StrV(V_emailA)
  /\ fnEmail = [isNull |-> FALSE, str |-> V_emaila]

\* C11: for every answer list in which no field has type INPUT_EMAIL, an identifier
\* containing 'email' or a label containing 'email' (case-insensitive), extractEmail
\* returns null
C11_NoEmailFieldGivesNull ==
  LET F == FieldsOf(fnFields)
  IN (/\ fnPc # "input"
      /\ \A i \in 1..Len(F) :
           /\ F[i].type # "INPUT_EMAIL"
           /\ ~includes(toLowerCase(F[i].id), STR_email)
           /\ ~includes(toLowerCase(F[i].title), STR_email)) =>
       fnEmail = NullEmail

\* two fields that hold strings, neither of them an email field, and extractEmail
\* returned null
C11_StringFieldsButNoEmail ==
  /\ fnPc = "extracted"
  /\ Len(fnFields) = 2
  /\ FieldPool[fnFields[1]].id = ATTENTION_CHECK_FIELD_ID
  /\ FieldPool[fnFields[1]].value.kind = "string"
  /\ FieldPool[fnFields[2]].id = HONEYPOT_FIELD_ID
  /\ FieldPool[fnFields[2]].value.kind = "string"
  /\ fnEmail = NullEmail

C13_NoEmailRejected ==
  [][/\ (/\ out'.handler = "A"
         /\ \/ EmailTable[variant][out'.ref].isNull
            \/ EmailTable[variant][out'.ref].str = <<>>) =>
          /\ out'.status = 400
          /\ out = NoOut
          /\ rows' = rows
          /\ outbox' = outbox
          /\ hA' = hA
     /\ \A p \in ProcsA :
          hA'[p].pc # "idle" =>
            /\ ~EmailTable[variant][hA'[p].payload].isNull
            /\ EmailTable[variant][hA'[p].payload].str # <<>>
     /\ \A i \in 1..Len(rows') : rows'[i].email # <<>>
    ]_vars

\* a payload whose email field holds only blanks was answered 400 while the store
\* already held a row
C13_BlankEmailRejected ==
  /\ out.handler = "A"
  /\ out.status = 400
  /\ EmailTable[variant][out.ref] = [isNull |-> FALSE, str |-> <<>>]
  /\ Len(rows) = 1
  /\ outbox = {}

\* C14: sendRewardEmail and sendAbuseEmail never throw to their caller: after a
\* notifier call handler B always goes on to update the row, and handler A always
\* answers 200, because every failure comes back as a result
C14_NotifierNeverThrows ==
  [][/\ \A b \in ProcsB :
          (hB[b].pc = "send" /\ hB'[b] # hB[b]) => hB'[b].pc = "update"
     /\ \A p \in ProcsA :
          (hA[p].pc = "notify" /\ hA'[p] # hA[p]) => out'.status = 200
    ]_vars

\* C15: handler A answers 500 only when a store call (duplicate lookup or insert)
\* failed, a step that leaves the store and the outbox as they were; every other
\* outcome is answered 200 (400 for a missing email), and the notification step that
\* follows the insert of an attention_fail row always answers 200 attention_fail
C15_ServerErrorOnlyFromStore ==
  [][out'.handler = "A" =>
       /\ out'.status \in {200, 400, 500}
       /\ out'.status = 500 =>
            /\ rows' = rows
            /\ outbox' = outbox
            /\ \A p \in ProcsA : hA[p].pc = "notify" => hA'[p] = hA[p]
       /\ \A p \in ProcsA :
            (hA[p].pc = "notify" /\ hA'[p] # hA[p]) =>
               /\ out'.status = 200
               /\ out'.classification = "attention_fail"
               /\ \E i \in 1..Len(rows') :
                    /\ rows'[i].answers = hA[p].payload
                    /\ rows'[i].classification = "attention_fail"
    ]_vars

\* C16: when handler B finishes an invocation that minted a code, the row carries
\* that code, email_sent = true and email_type = 'reward', and the response is 200
\* with emailSent telling whether the reward email was accepted; the only other end
\* is the 500 of a failed row update
C16_MintedCodeAlwaysRecorded ==
  [][\A b \in ProcsB :
       (hB[b].pc \in {"send", "update"} /\ hB'[b].pc = "idle") =>
          \/ /\ hB[b].pc = "update"
             /\ out'.status = 500
             /\ rows' = rows
          \/ /\ out'.handler = "B"
             /\ out'.status = 200
             /\ out'.promoCode = hB[b].code
             /\ rows'[hB[b].id].promo_code = hB[b].code
             /\ rows'[hB[b].id].email_sent
             /\ rows'[hB[b].id].email_type = "reward"
             /\ out'.emailSent <=>
                  (Mail("reward", hB[b].email, hB[b].code, hB[b].id, 1) \in outbox')
    ]_vars

(***************************************************************************)
(* Properties of the reward issuer                                         *)
(***************************************************************************)
\* C17: one call of createPromoCode makes at most two create calls; the second is
\* made only after the first failed because the code was taken and carries an
\* 8-character suffix where the first carried 6; a first failure of another kind, and
\* a failure of the second call, are thrown to the caller
C17_RetryOnlyAfterCollision ==
  /\ issuer.calls <= 2
  /\ issuer.pc = "retry" => issuer.cause = "collision"
  /\ issuer.calls = 2 =>
       /\ issuer.cause = "collision"
       /\ Len(issuer.code) = Len(codePrefix) + 1 + 6
       /\ Len(issuer.retryCode) = Len(codePrefix) + 1 + 8
       /\ issuer.pc \in {"returned", "threw"}
  /\ (issuer.calls = 1 /\ issuer.cause \notin {"", "collision"}) => issuer.pc = "threw"

(***************************************************************************)
(* Properties of handler B's filters and failures                          *)
(***************************************************************************)
\* C18: an event that is not an INSERT on submissions, or whose record is not
\* classified valid, or whose record carries a promo_code or email_sent = true, is
\* answered 200 by a step that mints no code, sends no email, updates no row and
\* starts no work; the invocations that go on to mint carry none of these events
C18_FilteredEventHasNoEffect ==
  [][LET Filtered(e) ==
           \/ e.type # "INSERT"
           \/ e.table # "submissions"
           \/ e.record.classification # "valid"
           \/ e.record.promo_code # NoCode
           \/ e.record.email_sent
     IN /\ (out'.handler = "B" /\ Filtered(out'.event)) =>
             /\ out'.status = 200
             /\ out'.promoCode = NoCode
             /\ rows' = rows
             /\ promoCodes' = promoCodes
             /\ outbox' = outbox
             /\ hB' = hB
        /\ \A b \in ProcsB : hB'[b].pc # "idle" => ~Filtered(hB'[b].event)
    ]_vars

\* an event whose record already carries a reward code has been answered
C18_ProcessedRecordIgnored ==
  /\ out.handler = "B"
  /\ out.status = 200
  /\ out.event.type = "INSERT"
  /\ out.event.table = "submissions"
  /\ out.event.record.classification = "valid"
  /\ out.event.record.promo_code # NoCode
  /\ out.event.record.email_sent
  /\ rows[out.ref].promo_code = out.event.record.promo_code

\* C19: a delivery whose code issuance fails is answered 500 by a step that
\* registers no code, sends no email and leaves every row as it was; a row without
\* a code keeps promo_code NULL and email_sent FALSE and has no reward email; and
\* the retry that follows such a failure mints code number one of the row, the only
\* code the row then has
C19_FailedIssuanceLeavesNoTrace ==
  [][/\ (out'.handler = "B" /\ out'.status = 500 /\ hB' = hB) =>
          /\ promoCodes' = promoCodes
          /\ outbox' = outbox
          /\ rows' = rows
     /\ \A id \in 1..Len(rows) :
          CodesOf(id) = {} =>
             /\ rows[id].promo_code = NoCode
             /\ ~rows[id].email_sent
             /\ \A m \in outbox : ~(m.kind = "reward" /\ m.ref = id)
     /\ \A id \in 1..Len(rows) :
          (/\ CodesOf(id) = {}
           /\ hist[id].events = 1
           /\ \E c \in promoCodes' \ promoCodes : c.row = id) =>
             /\ {c.code : c \in {d \in promoCodes' : d.row = id}} =
                  {[row |-> id, k |-> 1]}
             /\ \E b \in ProcsB :
                  /\ hB'[b].pc = "send"
                  /\ hB'[b].id = id
                  /\ hB'[b].code = [row |-> id, k |-> 1]
    ]_vars

\* the insert event of a row was delivered twice, the first issuance failed, and the
\* second delivery ended with the row carrying its code number one, the only one
C19_RetryAfterFailureRewarded ==
  /\ out.handler = "B"
  /\ out.status = 200
  /\ out.message = ""
  /\ hist[out.ref].events = 2
  /\ rows[out.ref].promo_code = [row |-> out.ref, k |-> 1]
  /\ {c.code : c \in CodesOf(out.ref)} = {[row |-> out.ref, k |-> 1]}
  /\ Cardinality({m \in outbox : m.kind = "reward" /\ m.ref = out.ref}) <= 1

\* C20: once a row carries a reward code, no step of handler B changes the row's
\* promo_code, email_sent or email_type
C20_RewardedRowNeverChanges ==
  [][\A i \in 1..Len(rows) :
       rows[i].promo_code # NoCode =>
          /\ rows'[i].promo_code = rows[i].promo_code
          /\ rows'[i].email_sent = rows[i].email_sent
          /\ rows'[i].email_type = rows[i].email_type
    ]_vars

(***************************************************************************)
(* Properties of the bot-detection variant                                 *)
(***************************************************************************)
\* C21 as stated: in the bot-detection variant the timing rule comes first, so every
\* submission that took less than 10 seconds is classified bot with the reason that
\* carries the elapsed time, also when its honeypot field is filled
C21_FastIsBotByTiming ==
  (/\ fnPc = "validated"
   /\ fnVariant = "bot"
   /\ fnElapsed < MIN_SUBMISSION_TIME_MS) =>
     fnResult = Result("bot", "Submission too fast", fnElapsed)

\* C21: in the bot-detection variant the rules are evaluated in the order honeypot,
\* timing, duplicate, attention and the first matching rule decides: a filled
\* honeypot gives bot with the honeypot reason whatever the elapsed time; otherwise
\* less than 10 seconds gives bot with the reason that carries the elapsed time;
\* otherwise a duplicate email gives bot; otherwise the attention answer decides
C21_HoneypotThenTiming ==
  LET F == FieldsOf(fnFields)
      filled == \E i \in 1..Len(F) :
                  /\ F[i].id = HONEYPOT_FIELD_ID
                  /\ \A j \in 1..(i - 1) : F[j].id # HONEYPOT_FIELD_ID
                  /\ TruthyValue(F[i].value)
      fast == fnElapsed < MIN_SUBMISSION_TIME_MS
      dup == fnDup /\ Truthy(fnEmail)
  IN (fnPc = "validated" /\ fnVariant = "bot") =>
       /\ filled => fnResult = Result("bot", "Honeypot field was filled", 0)
       /\ (~filled /\ fast) => fnResult = Result("bot", "Submission too fast", fnElapsed)
       /\ (~filled /\ ~fast /\ dup) =>
            fnResult = Result("bot", "Duplicate email submission detected", 0)
       /\ (~filled /\ ~fast /\ ~dup) =>
            fnResult.classification \in {"attention_fail", "valid"}

\* a submission that took 4 seconds and has its honeypot filled, classified bot for
\* the honeypot
C21_FastWithHoneypot ==
  /\ fnPc = "validated"
  /\ fnVariant = "bot"
  /\ fnElapsed < MIN_SUBMISSION_TIME_MS
  /\ checkHoneypot(FieldsOf(fnFields))
  /\ fnResult = Result("bot", "Honeypot field was filled", 0)

(***************************************************************************)
(* Properties of handler A's side effects                                  *)
(***************************************************************************)
\* C22: an invocation of handler A whose submission is classified valid makes one
\* insert call and nothing else: classifying stores and sends nothing; the insert
\* step ends the invocation, sends no email, and either appends exactly one row,
\* with classification valid, the extracted email and the payload's response id, no
\* code and no email flag, and answers 200 valid, or appends nothing and answers 500
C22_ValidInsertsOneRowOnly ==
  [][\A p \in ProcsA :
       /\ (hA[p].pc = "idle" /\ hA'[p].pc = "insert") =>
            (rows' = rows /\ outbox' = outbox)
       /\ (hA[p].pc = "insert" /\ hA[p].classification = "valid" /\ hA'[p] # hA[p]) =>
            LET i == hA[p].payload
                row == [email |-> EmailTable[variant][i].str,
                        tally_response_id |-> PayloadTable[variant][i].responseId,
                        answers |-> i,
                        classification |-> "valid",
                        classification_reason |-> "All validation checks passed",
                        promo_code |-> NoCode, email_sent |-> FALSE,
                        email_type |-> "null"]
            IN /\ hA'[p] = IdleA
               /\ outbox' = outbox
               /\ out'.handler = "A"
               /\ out'.ref = i
               /\ \/ /\ rows' = Append(rows, row)
                     /\ out'.status = 200
                     /\ out'.classification = "valid"
                  \/ /\ rows' = rows
                     /\ out'.status = 500
       /\ (out'.handler = "A" /\ out'.classification = "valid") =>
            /\ out'.status = 200
            /\ Len(rows') = Len(rows) + 1
            /\ outbox' = outbox
    ]_vars

\* a valid submission with the email " A@X.com " was stored as a@x.com and answered
\* 200 valid, no email having been sent
C22_ValidStoredAndAnswered ==
  /\ out.handler = "A"
  /\ out.status = 200
  /\ out.classification = "valid"
  /\ out.ref = 1
  /\ Len(rows) = 1
  /\ rows[1].email = V_emaila
  /\ rows[1].tally_response_id = 1
  /\ rows[1].classification = "valid"
  /\ outbox = {}

\* C23: when an invocation of handler B that minted a code responds after its
\* update call, whatever the status of the response and whether or not the reward
\* email was accepted, the row carries that code in promo_code
C23_MintedCodeInRowAtResponse ==
  [][\A b \in ProcsB :
       (hB[b].pc = "update" /\ hB'[b].pc = "idle") =>
          /\ out'.handler = "B"
          /\ rows'[hB[b].id].promo_code = hB[b].code
    ]_vars

\* C24: a store call that fails in handler A ends the invocation with 500, no row
\* created and no email sent by it: the step that runs the duplicate lookup creates
\* no row and sends no email, and goes on to the insert only when the lookup found
\* no row with the email, never when it failed; the insert step either stores the
\* row or, when the store rejects it (always when a row with the response id
\* exists), answers 500 at once, leaving the store and the outbox as they were
C24_StoreFailureGives500NoEffect ==
  [][/\ (hA' = hA /\ out'.handler = "A") => (rows' = rows /\ outbox' = outbox)
     /\ \A p \in ProcsA :
       /\ (hA[p].pc = "idle" /\ hA'[p].pc = "insert") =>
            /\ rows' = rows
            /\ outbox' = outbox
            /\ ~\E i \in 1..Len(rows) :
                  rows[i].email = EmailTable[variant][hA'[p].payload].str
       /\ (hA[p].pc = "insert" /\ hA'[p] # hA[p]) =>
            LET rid == PayloadTable[variant][hA[p].payload].responseId
                taken == \E i \in 1..Len(rows) : rows[i].tally_response_id = rid
            IN /\ outbox' = outbox
               /\ taken => rows' = rows
               /\ rows' = rows <=> (out'.handler = "A" /\ out'.status = 500)
               /\ rows' = rows => hA'[p] = IdleA
               /\ rows' # rows => Len(rows') = Len(rows) + 1
    ]_vars

\* the duplicate lookup failed while a row with the submission's email was stored:
\* answered 500, nothing stored, nothing sent
C24_LookupFailedWithRowPresent ==
  /\ out.handler = "A"
  /\ out.status = 500
  /\ out.rowExisted
  /\ Len(rows) = 1
  /\ rows[1].email = EmailTable[variant][out.ref].str
  /\ outbox = {}
  /\ \A p \in ProcsA : hA[p] = IdleA

(***************************************************************************)
(* Properties of the duplicate check                                       *)
(***************************************************************************)
\* C25 as stated: when no other invocation of handler A is under way, a submission
\* whose email differs only in letter case or in leading and trailing whitespace
\* from the email a stored row was submitted with is classified duplicate, answered
\* 200, and not persisted
C25_CaseVariantIsDuplicate ==
  [][LET raw(i) == PayloadTable[variant][i].fields[1]
         norm(i) == trim(toLowerCase(raw(i).value.v))
         typed(i) == raw(i).type = "INPUT_EMAIL" /\ raw(i).value.kind = "string"
         Variant(i) == \E r \in 1..Len(rows) :
                          /\ typed(i) /\ typed(rows[r].answers)
                          /\ raw(i).value # raw(rows[r].answers).value
                          /\ norm(i) = norm(rows[r].answers)
         AllIdle == \A q \in ProcsA : hA[q].pc = "idle"
     IN /\ \A p \in ProcsA :
             (AllIdle /\ hA'[p].pc = "insert") => ~Variant(hA'[p].payload)
        /\ (AllIdle /\ out'.handler = "A" /\ Variant(out'.ref)) =>
             /\ out'.status = 200
             /\ out'.classification = "duplicate"
             /\ rows' = rows
             /\ hA' = hA
    ]_vars

\* C25, amended: such a submission is never persisted; when the duplicate lookup
\* succeeds it is answered 200 with the classification of a duplicate, which is
\* duplicate in the variants without bot detection and bot in the bot-detection
\* variant; when the lookup fails it is answered 500
C25_CaseVariantNeverPersisted ==
  [][LET raw(i) == PayloadTable[variant][i].fields[1]
         norm(i) == trim(toLowerCase(raw(i).value.v))
         typed(i) == raw(i).type = "INPUT_EMAIL" /\ raw(i).value.kind = "string"
         Variant(i) == \E r \in 1..Len(rows) :
                          /\ typed(i) /\ typed(rows[r].answers)
                          /\ raw(i).value # raw(rows[r].answers).value
                          /\ norm(i) = norm(rows[r].answers)
         AllIdle == \A q \in ProcsA : hA[q].pc = "idle"
     IN /\ \A p \in ProcsA :
             (AllIdle /\ hA'[p].pc = "insert") => ~Variant(hA'[p].payload)
        /\ (AllIdle /\ out'.handler = "A" /\ Variant(out'.ref)) =>
             /\ out'.status \in {200, 500}
             /\ out'.status = 200 =>
                  /\ out'.classification = IF variant = "bot" THEN "bot" ELSE "duplicate"
                  /\ out'.rowExisted
             /\ rows' = rows
             /\ outbox' = outbox
             /\ hA' = hA
    ]_vars

\* " A@X.com " arrived after the row submitted as "a@x.com" was stored: answered 200
\* duplicate, the store still holding that one row
C25_UpperCasePaddedIsDuplicate ==
  /\ out.handler = "A"
  /\ out.status = 200
  /\ out.classification = "duplicate"
  /\ PayloadTable[variant][out.ref].fields[1].value = StrV(V_emailA)
  /\ Len(rows) = 1
  /\ PayloadTable[variant][rows[1].answers].fields[1].value = StrV(V_emaila)
  /\ \A p \in ProcsA : hA[p] = IdleA

(***************************************************************************)
(* Properties of the attention check's normalization                       *)
(***************************************************************************)
\* C26: in every variant the value of the attention field the check has found is
\* compared as this string: a string as it is, an array as its first element
\* stringified ('' when it is empty), an object as its id when it has one, any other
\* value stringified; so in the fail-closed variant a submission that is not a
\* duplicate and whose deciding field holds an object with the id of a Yes option
\* is valid
C26_ObjectYieldsItsId ==
  LET F == FieldsOf(fnFields)
      i == FindFirst({k \in 1..Len(F) :
                        IF fnVariant = "closed" THEN IsAttentionFieldClosed(F[k])
                        ELSE IsAttentionFieldOpen(F[k])})
      val == F[i].value
      answer == IF fnVariant = "closed" THEN NormalizeClosed(val)
                ELSE NormalizeOpen(val)
  IN (fnPc = "validated" /\ i # 0) =>
       /\ val.kind = "string" => answer = val.v
       /\ val.kind = "array" =>
            answer = IF Len(val.v) = 0 THEN <<>> ELSE String(val.v[1])
       /\ (val.kind = "object" /\ Len(val.v) > 0) => answer = val.v[1]
       /\ val.kind \in {"number", "boolean", "null", "undefined"} =>
            answer = String(val)
       /\ (/\ fnVariant = "closed"
           /\ val.kind = "object"
           /\ Len(val.v) > 0
           /\ val.v[1] \in yesOptionIds
           /\ ~(fnDup /\ Truthy(fnEmail))) =>
            fnResult.classification = "valid"

(***************************************************************************)
(* Properties of the form webhook's signature check                        *)
(***************************************************************************)
\* C27: handler A never answers 401: whether or not a secret is configured and
\* whatever signature the request carries, the request is parsed and answered 200,
\* 400 or 500 like any other
C27_NeverUnauthorized ==
  /\ out.status # 401
  /\ out.handler = "A" => out.status \in {200, 400, 500}
  /\ out.auth # NoAuth =>
       /\ out.handler = "A"
       /\ HasSignatureCheck(variant)
       /\ out.message \in {"", "No email found", "Internal server error"}

\* with a secret configured, a request without a signature was processed: its
\* submission was looked up, found to be a duplicate and answered 200
C27_UnsignedRequestProcessed ==
  /\ variant = "bot"
  /\ out.handler = "A"
  /\ out.auth = Auth(TRUE, "none")
  /\ out.status = 200
  /\ out.rowExisted
  /\ out.classification = "bot"

(***************************************************************************)
(* Properties of the abuse notification                                    *)
(***************************************************************************)
\* C28: whatever the interleaving of deliveries, an abuse email is accepted only
\* for a response id for which an attention_fail row with the recipient's email is
\* already stored and for which no abuse email has been accepted before
C28_OneAbuseEmailPerResponse ==
  [][\A m \in outbox' \ outbox :
       m.kind = "abuse" =>
          /\ \E i \in 1..Len(rows) :
               /\ rows[i].tally_response_id = m.ref
               /\ rows[i].classification = "attention_fail"
               /\ rows[i].email = m.to
          /\ \A m2 \in outbox : ~(m2.kind = "abuse" /\ m2.ref = m.ref)
    ]_vars

\* the same wrong-answer submission was delivered twice at once: one invocation
\* stored the row and sent the abuse email, the other was refused by the store and
\* answered 500 without sending
C28_SecondDeliverySentNothing ==
  /\ out.handler = "A"
  /\ out.status = 500
  /\ ~out.rowExisted
  /\ \A p \in ProcsA : hA[p] = IdleA
  /\ Len(rows) = 1
  /\ rows[1].classification = "attention_fail"
  /\ rows[1].tally_response_id = PayloadTable[variant][out.ref].responseId
  /\ Cardinality({m \in outbox : m.kind = "abuse" /\ m.ref = rows[1].tally_response_id}) = 1

(***************************************************************************)
(* Properties of an email that failed the attention check                  *)
(***************************************************************************)
\* C29 as stated: when no other invocation of handler A is under way, a submission
\* whose email was first stored with classification attention_fail is classified
\* duplicate and answered 200, whatever its attention answer, and stores nothing;
\* a valid row with such an email comes only from an invocation whose lookup ran
\* before the attention_fail row was inserted, and no code is minted for any other
\* row with that email
C29_FailedEmailAlwaysDuplicate ==
  [][LET Failed(e) == \E r \in 1..Len(rows) :
                        /\ rows[r].email = e
                        /\ rows[r].classification = "attention_fail"
                        /\ \A q \in 1..(r - 1) : rows[q].email # e
         AllIdle == \A q \in ProcsA : hA[q].pc = "idle"
     IN /\ (/\ AllIdle
            /\ out'.handler = "A"
            /\ Truthy(EmailTable[variant][out'.ref])
            /\ Failed(EmailTable[variant][out'.ref].str)) =>
             /\ out'.status = 200
             /\ out'.classification = "duplicate"
             /\ rows' = rows
             /\ hA' = hA
        /\ \A p \in ProcsA :
             (AllIdle /\ hA'[p].pc = "insert") =>
                ~Failed(EmailTable[variant][hA'[p].payload].str)
        /\ \A i, j \in 1..Len(rows') :
             (/\ i < j
              /\ rows'[i].email = rows'[j].email
              /\ rows'[i].classification = "attention_fail") =>
                hist'[j].seen < i
        /\ \A c \in promoCodes' : rows'[c.row].classification = "valid"
    ]_vars

\* C29, amended: such a submission stores nothing and is never rewarded; it is
\* answered 200 with the duplicate outcome (duplicate, or bot in the bot-detection
\* variant) when its lookup succeeds and 500 when its lookup fails
C29_FailedEmailNeverRewarded ==
  [][LET Failed(e) == \E r \in 1..Len(rows) :
                        /\ rows[r].email = e
                        /\ rows[r].classification = "attention_fail"
                        /\ \A q \in 1..(r - 1) : rows[q].email # e
         AllIdle == \A q \in ProcsA : hA[q].pc = "idle"
     IN /\ (/\ AllIdle
            /\ out'.handler = "A"
            /\ Truthy(EmailTable[variant][out'.ref])
            /\ Failed(EmailTable[variant][out'.ref].str)) =>
             /\ out'.status \in {200, 500}
             /\ out'.status = 200 =>
                  out'.classification = IF variant = "bot" THEN "bot" ELSE "duplicate"
             /\ rows' = rows
             /\ outbox' = outbox
             /\ promoCodes' = promoCodes
             /\ hA' = hA
        /\ \A p \in ProcsA :
             (AllIdle /\ hA'[p].pc = "insert") =>
                ~Failed(EmailTable[variant][hA'[p].payload].str)
        /\ \A i, j \in 1..Len(rows') :
             (/\ i < j
              /\ rows'[i].email = rows'[j].email
              /\ rows'[i].classification = "attention_fail") =>
                hist'[j].seen < i
        /\ \A c \in promoCodes' : rows'[c.row].classification = "valid"
    ]_vars

\* after a@x.com was stored as attention_fail, a submission with that email and the
\* correct attention answer was answered 200 duplicate; the store holds the one
\* attention_fail row and no code exists
C29_CorrectAnswerAfterFailure ==
  /\ out.handler = "A"
  /\ out.status = 200
  /\ out.classification = "duplicate"
  /\ checkAttentionAnswer(variant, PayloadTable[variant][out.ref].fields)
  /\ Len(rows) = 1
  /\ rows[1].classification = "attention_fail"
  /\ rows[1].email = EmailTable[variant][out.ref].str
  /\ promoCodes = {}
  /\ \A p \in ProcsA : hA[p] = IdleA

(***************************************************************************)
(* Properties of a rewarded row                                            *)
(***************************************************************************)
\* C30: in every reachable state a row whose promo_code is set is classified valid,
\* has email_sent = true and email_type = 'reward', and its promo_code is a code
\* the reward issuer registered for that row and that row's email
C30_RewardedRowIsConsistent ==
  \A i \in 1..Len(rows) :
    rows[i].promo_code # NoCode =>
      /\ rows[i].classification = "valid"
      /\ rows[i].email_sent
      /\ rows[i].email_type = "reward"
      /\ \E c \in promoCodes :
           /\ c.code = rows[i].promo_code
           /\ c.email = rows[i].email
           /\ c.row = i

\* a row carries its code, email_sent = true and email_type 'reward' although the
\* notifier reported that the reward email was not accepted
C30_CodeRecordedThoughSendFailed ==
  /\ out.handler = "B"
  /\ out.status = 200
  /\ ~out.emailSent
  /\ out.promoCode # NoCode
  /\ rows[out.ref].promo_code = out.promoCode
  /\ rows[out.ref].email_sent
  /\ rows[out.ref].email_type = "reward"
  /\ {m \in outbox : m.kind = "reward" /\ m.ref = out.ref} = {}

\* C31: no handler records the abuse notification on the row: in every
\* reachable state a row classified attention_fail has no promo code,
\* email_sent = FALSE and email_type null, and the step that sends the abuse
\* email leaves the whole table as it was.
C31_AttentionFailRowNeverMarked ==
  [][/\ \A i \in 1..Len(rows') :
          rows'[i].classification = "attention_fail"
            => /\ rows'[i].promo_code = NoCode
               /\ rows'[i].email_sent = FALSE
               /\ rows'[i].email_type = "null"
     /\ (\E p \in 1..NumProcsA : hA[p].pc = "notify" /\ hA'[p].pc # "notify")
          => rows' = rows]_vars

\* C31 witness: the abuse email of a stored attention_fail row was delivered
\* and answered, and the row still carries no notification mark.
C31_AbuseSentRowUnmarked ==
  /\ out.handler = "A" /\ out.status = 200
  /\ out.classification = "attention_fail" /\ out.emailSent
  /\ LET rid == PayloadTable[variant][out.ref].responseId
     IN \E i \in 1..Len(rows) :
          /\ rows[i].classification = "attention_fail"
          /\ rows[i].tally_response_id = rid
          /\ \E m \in outbox : m.kind = "abuse" /\ m.ref = rid
          /\ rows[i].email_sent = FALSE /\ rows[i].email_type = "null"

=============================================================================
